---- MODULE Spec2Model ----
\* Fuel-station price store: price report ingestion (report_price ->
\* create_price_report) and the current-price read paths
\* (get_current_prices, get_gas_stations_with_prices_bulk), modelled as
\* asynchronous requests over one shared transactional store.
EXTENDS Integers, Sequences, FiniteSets, TLC

\* ---------------------------------------------------------------- bounds
\* number of report_price requests that may be in flight together
MaxRequests == 2
Requests == 1..MaxRequests

\* ---------------------------------------------------------------- domains
None == "none"

\* station ids a client may send; "s3" is not in the gas_stations table
StationIds == {"s1", "s2", "s3"}
\* fuel_type form values as the client sends them (case is the client's)
FuelInputs == {"magna", "Premium", "diesel"}
FuelTypes == {"magna", "premium", "diesel"}
\* reported_price form values (Form(..., ge=0): zero is admitted)
Prices == {0, 22}
\* the forms a client submits: a sold fuel at the active station (also with
\* price 0 and in another letter case), an unsold fuel, the inactive station
\* and the missing station
Forms ==
    {[gas_station_id |-> "s1", fuel_type |-> "magna", reported_price |-> 22],
     [gas_station_id |-> "s1", fuel_type |-> "magna", reported_price |-> 0],
     [gas_station_id |-> "s1", fuel_type |-> "Premium", reported_price |-> 22],
     [gas_station_id |-> "s1", fuel_type |-> "diesel", reported_price |-> 22],
     [gas_station_id |-> "s2", fuel_type |-> "magna", reported_price |-> 22],
     [gas_station_id |-> "s3", fuel_type |-> "magna", reported_price |-> 22]}
\* messages the validation collaborator may hand back with accepted = false
Messages == {"rate limit exceeded", "price out of range"}

\* str.lower() on the fuel type values of FuelInputs
Lower(f) ==
    CASE f = "Premium" -> "premium"
      [] f = "PREMIUM" -> "premium"
      [] f = "Magna" -> "magna"
      [] f = "MAGNA" -> "magna"
      [] f = "Diesel" -> "diesel"
      [] f = "DIESEL" -> "diesel"
      [] OTHER -> f

\* ---------------------------------------------------------------- state
VARIABLES
    stations,       \* gas_stations table: id -> row (committed)
    prices,         \* gas_prices table: set of rows (committed)
    reports,        \* user_price_reports table: set of rows (committed)
    req,            \* per report_price request: position, form data, session
    now,            \* the last reading of datetime.utcnow()
    obs,            \* what the read request that has just run returned
    lastCommitted   \* history: (station, fuel) -> price of the last commit

vars == <<stations, prices, reports, req, now, obs, lastCommitted>>

\* the rows of gas_stations at start-up
InitStations ==
    [s \in {"s1", "s2"} |->
        IF s = "s1"
        THEN [is_active |-> TRUE, has |-> {"magna", "premium"},
              total_reports |-> 0, last_price_update |-> 0]
        ELSE [is_active |-> FALSE, has |-> {"magna", "diesel"},
              total_reports |-> 0, last_price_update |-> 0]]

\* the rows of gas_prices at start-up: one current validated magna price
InitPrices ==
    {[id |-> 0, gas_station_id |-> "s1", fuel_type |-> "magna", price |-> 20,
      source |-> "official", is_current |-> TRUE,
      validation_status |-> "validated", created_at |-> 0]}

\* a request record: its position (pc), the form data, what its session
\* read (snap, at) and its response.  History fields, written but never read
\* by the program: validation_msg (the collaborator's refusal), prior (a
\* current validated price of the pair existed when the write began), grew
\* (the change of the station's total_reports made by this request's commit)
\* and failedAt (the await that raised).
IdleReq ==
    [pc |-> "idle", gas_station_id |-> None, fuel_type |-> None,
     reported_price |-> 0, validation_msg |-> None, snap |-> 0, at |-> 0,
     prior |-> FALSE, grew |-> 0,
     failedAt |-> None, resp |-> [status |-> 0, detail |-> None]]

\* a read result, handed to the client and gone with the next step of any
\* request: the stations returned in order, their current_prices
\* mappings (view) and the price rows the query fetched (rows).  History
\* fields: after (the last commit, when its request had already been
\* answered with success at the time of the read) and during (the pairs
\* covered by the query for which a write with a prior current price was in
\* flight at the time of the read).
NoObs == [op |-> None, order |-> <<>>, view |-> <<>>, rows |-> {},
          after |-> [r |-> 0, gas_station_id |-> None, fuel_type |-> None,
                     price |-> 0],
          during |-> {}]

NoCommit == [r |-> 0, gas_station_id |-> None, fuel_type |-> None, price |-> 0]

Init ==
    /\ stations = InitStations
    /\ prices = InitPrices
    /\ reports = {}
    /\ req = [r \in Requests |-> IdleReq]
    /\ now = 1
    /\ obs = NoObs
    /\ lastCommitted = NoCommit

\* ---------------------------------------------------------------- models
\* UserPriceReport.create_from_form_data: the raw submission, fuel type
\* normalised to lowercase, not yet handled
create_from_form_data(id, s, f, p) ==
    [id |-> id, gas_station_id |-> s, fuel_type |-> Lower(f),
     reported_price |-> p, status |-> "pending"]

\* UserPriceReport.process_report: marks the report handled
process_report(report) == [report EXCEPT !.status = "processed"]

\* GasPrice.create_from_user_report: the price record derived from a report,
\* promoted to current and validated at once; it builds one row from its
\* arguments and touches no other row
create_from_user_report(id, s, f, p, t) ==
    [id |-> id, gas_station_id |-> s, fuel_type |-> f, price |-> p,
     source |-> "user_report", is_current |-> TRUE,
     validation_status |-> "validated", created_at |-> t]

\* GasStation.has_fuel_type: the availability flag of the declared fuel type
has_fuel_type(st, f) == Lower(f) \in st.has

\* the current validated rows of gas_prices (the join / where condition
\* shared by every read path)
IsCurrentValidated(p) == p.is_current /\ p.validation_status = "validated"

CurrentRowsOf(s) ==
    {p \in prices : p.gas_station_id = s /\ IsCurrentValidated(p)}

\* ---------------------------------------------------------------- report_price
\* the request is answered: the station and fuel type it named, its
\* response and its history fields stay on record
Finish(r, status, detail) ==
    [IdleReq EXCEPT !.pc = "done",
                    !.grew = req[r].grew,
                    !.gas_station_id = req[r].gas_station_id,
                    !.fuel_type = req[r].fuel_type,
                    !.validation_msg = req[r].validation_msg,
                    !.resp = [status |-> status, detail |-> detail]]

\* mutant: the collaborator's refusal is ignored
ValidationIgnored(ok) == FALSE

\* prices.py:196: the request is refused when the collaborator says no
ValidationRaises(ok) == ~ok

\* report_price up to its first await: the form is handed to
\* protection_service.validate_price_report, which answers (ok, msg)
ReportPriceValidate(r) ==
    /\ req[r].pc = "idle"
    /\ \A q \in Requests : q < r => req[q].pc # "idle"   \* ids in arrival order
    /\ \E fd \in Forms, ok \in BOOLEAN, msg \in Messages :
        LET form == [req[r] EXCEPT !.gas_station_id = fd.gas_station_id,
                                   !.fuel_type = fd.fuel_type,
                                   !.reported_price = fd.reported_price,
                                   !.validation_msg = IF ok THEN None ELSE msg]
        IN  req' = [req EXCEPT ![r] =
                IF ValidationRaises(ok)
                THEN [form EXCEPT !.pc = "done", !.reported_price = 0,
                                  !.resp = [status |-> 400, detail |-> msg]]
                ELSE [form EXCEPT !.pc = "lookup"]]
    /\ obs' = NoObs
    /\ UNCHANGED <<stations, prices, reports, now, lastCommitted>>

\* mutant: the lookup without its is_active condition
get_gas_station_by_id_any(s) ==
    IF s \in DOMAIN stations THEN s ELSE None

\* DatabaseService.get_gas_station_by_id: the active station row, or None
get_gas_station_by_id(s) ==
    IF s \in DOMAIN stations /\ stations[s].is_active THEN s ELSE None

\* mutant: the fuel type check always passes
FuelCheckSkipped(s, f) == FALSE

\* prices.py:206: the station does not sell the declared fuel
FuelNotSold(s, f) == ~has_fuel_type(stations[s], f)

\* report_price from the station lookup to the call of create_price_report
ReportPriceLookup(r) ==
    /\ req[r].pc = "lookup"
    /\ LET station == get_gas_station_by_id(req[r].gas_station_id)
       IN  req' = [req EXCEPT ![r] =
               IF station = None
               THEN Finish(r, 404, "Gasolinera no encontrada")
               ELSE IF FuelNotSold(station, req[r].fuel_type)
               THEN Finish(r, 400, "Esta gasolinera no vende")
               ELSE [req[r] EXCEPT !.pc = "flush",
                       !.prior = \E p \in CurrentRowsOf(station) :
                                    p.fuel_type = Lower(req[r].fuel_type)]]
    /\ obs' = NoObs
    /\ UNCHANGED <<stations, prices, reports, now, lastCommitted>>

\* ---------------------------------------------------------------- create_price_report
\* the rows the session of request r holds
SessionReport(r) ==
    create_from_form_data(r, req[r].gas_station_id, req[r].fuel_type,
                          req[r].reported_price)

SessionPrice(r) ==
    create_from_user_report(r, SessionReport(r).gas_station_id,
                            SessionReport(r).fuel_type,
                            SessionReport(r).reported_price, req[r].at)

\* mutant: an autocommitting session, the flushed report is visible at once
Flush_Autocommit(r) ==
    /\ req[r].pc = "flush"
    /\ req' = [req EXCEPT ![r].pc = "select"]
    /\ reports' = reports \cup {SessionReport(r)}
    /\ obs' = NoObs
    /\ UNCHANGED <<stations, prices, now, lastCommitted>>

\* session.add(report); await session.flush(): the INSERT runs inside the
\* open transaction, nothing is visible to other sessions
Flush(r) ==
    /\ req[r].pc = "flush"
    /\ req' = [req EXCEPT ![r].pc = "select"]
    /\ obs' = NoObs
    /\ UNCHANGED <<stations, prices, reports, now, lastCommitted>>

\* the derived price is built and added, the report marked processed, and
\* the station row is read (no is_active condition); total_reports + 1 and
\* utcnow() are computed in the process from the row just read.  The clock
\* reads t: the same instant as the reading before, or a later one.  The
\* price rows present at start-up were created before the first reading.
SelectStation(r) ==
    /\ req[r].pc = "select"
    /\ \E t \in {now, now + 1} :
         LET s == req[r].gas_station_id
         IN  /\ req' = [req EXCEPT ![r].pc = "commit", ![r].at = t,
                         ![r].snap = IF s \in DOMAIN stations
                                     THEN stations[s].total_reports ELSE 0]
             /\ now' = t
    /\ obs' = NoObs
    /\ UNCHANGED <<stations, prices, reports, lastCommitted>>

\* the UPDATE of the station row that the commit flushes: the values
\* computed by the process at lines 372-373
StationAfterReport(r, st) ==
    [st EXCEPT !.total_reports = req[r].snap + 1,
               !.last_price_update = req[r].at]

\* await session.commit(): the report, the price and the station update
\* become visible together
Commit(r) ==
    /\ req[r].pc = "commit"
    /\ LET s == req[r].gas_station_id
       IN  /\ reports' = reports \cup {process_report(SessionReport(r))}
           /\ prices' = prices \cup {SessionPrice(r)}
           /\ stations' = IF s \in DOMAIN stations
                          THEN [stations EXCEPT ![s] = StationAfterReport(r, stations[s])]
                          ELSE stations
           /\ lastCommitted' = [r |-> r, gas_station_id |-> s,
                                fuel_type |-> SessionReport(r).fuel_type,
                                price |-> req[r].reported_price]
    /\ req' = [req EXCEPT ![r].pc = "refresh",
                           ![r].grew = IF req[r].gas_station_id \in DOMAIN stations
                                       THEN stations'[req[r].gas_station_id].total_reports
                                            - stations[req[r].gas_station_id].total_reports
                                       ELSE 0]
    /\ obs' = NoObs
    /\ UNCHANGED now

\* create_price_report is left, by return or by exception: the session is
\* closed and the form data released; what the request wrote is in the store
\* under its id
Leave(r, status, detail) ==
    [Finish(r, status, detail) EXCEPT !.gas_station_id = None, !.fuel_type = None]

\* await session.refresh(report), then report_price builds the success payload
Refresh(r) ==
    /\ req[r].pc = "refresh"
    /\ req' = [req EXCEPT ![r] = Leave(r, 200, "Precio reportado correctamente")]
    /\ obs' = NoObs
    /\ UNCHANGED <<stations, prices, reports, now, lastCommitted>>

\* an await of create_price_report raises or the request is cancelled: the
\* session scope closes, the open transaction is rolled back, and
\* report_price answers with the generic failure
\* variant of Fail: the handler swallows the exception and answers success
Fail_AnswersSuccess(r) ==
    /\ req[r].pc \in {"flush", "select", "commit", "refresh"}
    /\ req' = [req EXCEPT ![r] =
                 [Leave(r, 200, "Precio reportado correctamente")
                    EXCEPT !.failedAt = req[r].pc]]
    /\ obs' = NoObs
    /\ UNCHANGED <<stations, prices, reports, now, lastCommitted>>

Fail(r) ==
    /\ req[r].pc \in {"flush", "select", "commit", "refresh"}
    /\ req' = [req EXCEPT ![r] =
                 [Leave(r, 500, "Error interno del servidor")
                    EXCEPT !.failedAt = req[r].pc]]
    /\ obs' = NoObs
    /\ UNCHANGED <<stations, prices, reports, now, lastCommitted>>

\* ---------------------------------------------------------------- read paths
Min(a, b) == IF a <= b THEN a ELSE b

\* the elements a sequence holds
Range(seq) == {seq[i] : i \in 1..Len(seq)}

InFlight(r) == req[r].pc \in {"flush", "select", "commit", "refresh"}

\* the last commit, if its request has been answered with success
AnsweredCommit ==
    IF lastCommitted.r # 0 /\ req[lastCommitted.r].pc = "done"
                           /\ req[lastCommitted.r].resp.status = 200
    THEN lastCommitted ELSE NoCommit

\* the (station, fuel) pairs under a write that began with a prior current price
PairsUnderWrite ==
    {<<req[r].gas_station_id, Lower(req[r].fuel_type)>> :
        r \in {q \in Requests : InFlight(q) /\ req[q].prior}}

\* DatabaseService.get_current_prices: the current validated rows of one
\* station, newest first; the first row of each fuel type is kept.  Rows
\* with equal created_at come in an order the store chooses.
Newest(rows, f) ==
    {p \in rows : /\ p.fuel_type = f
                  /\ \A q \in rows : q.fuel_type = f => q.created_at <= p.created_at}

\* the current_prices mappings the call can return for station s
CurrentPricesViews(s) ==
    LET rows == CurrentRowsOf(s)
        fs == {p.fuel_type : p \in rows}
    IN  {[f \in fs |-> pick[f].price] :
            pick \in {pk \in [fs -> rows] : \A f \in fs : pk[f] \in Newest(rows, f)}}

get_current_prices(s) ==
    /\ \E v \in CurrentPricesViews(s) :
          obs' = [op |-> "get_current_prices", order |-> <<s>>,
                  view |-> [x \in {s} |-> v],
                  rows |-> {<<p.gas_station_id, p.fuel_type, p.id>> :
                               p \in CurrentRowsOf(s)},
                  after |-> AnsweredCommit,
                  during |-> {k \in PairsUnderWrite : k[1] = s}]
    /\ UNCHANGED <<stations, prices, reports, req, now, lastCommitted>>

GetCurrentPrices == \E s \in StationIds : get_current_prices(s)

\* ORDER BY GasStation.name, GasPrice.fuel_type: stations are named after
\* their ids; a NULL fuel type (station without price) sorts last
NameRank(s) == CASE s = "s1" -> 1 [] s = "s2" -> 2 [] s = "s3" -> 3
                 [] s = "s4" -> 4 [] OTHER -> 5
FuelRank(f) == CASE f = "diesel" -> 1 [] f = "magna" -> 2 [] f = "premium" -> 3
                 [] OTHER -> 4
RowBefore(a, b) ==
    \/ NameRank(a.sid) < NameRank(b.sid)
    \/ NameRank(a.sid) = NameRank(b.sid) /\ FuelRank(a.fuel) < FuelRank(b.fuel)

\* the LEFT JOIN of active stations with their current validated prices,
\* under the optional fuel_type condition (fuel = lower(filter) OR IS NULL)
JoinedRows(ff) ==
    LET active == {s \in DOMAIN stations : stations[s].is_active}
        priced == {[sid |-> p.gas_station_id, fuel |-> p.fuel_type,
                    price |-> p.price, pid |-> p.id] :
                      p \in {q \in prices : /\ q.gas_station_id \in active
                                            /\ IsCurrentValidated(q)}}
        bare   == {[sid |-> s, fuel |-> None, price |-> 0, pid |-> 0 - 1] :
                      s \in {t \in active : CurrentRowsOf(t) = {}}}
    IN  {j \in priced \cup bare :
            ff = None \/ j.fuel = Lower(ff) \/ j.fuel = None}

\* the station ids of a row set in query order
RECURSIVE InNameOrder(_)
InNameOrder(S) ==
    IF S = {} THEN <<>>
    ELSE LET first == CHOOSE s \in S : \A t \in S : NameRank(s) <= NameRank(t)
         IN  <<first>> \o InNameOrder(S \ {first})

\* row.fuel_type and row.price (db_service.py:196): Python truthiness
RowHasPrice(j) == j.fuel # None /\ j.price # 0

\* await session.execute(query) (db_service.py:169): the store round trips
\* of one bulk call, whatever rows come back
BulkExecutes_PerStation(rows) == 1 + Cardinality({j.sid : j \in rows})
BulkExecutes(rows) == 1

\* variant of RowCap: the query reads one row more than three per station
RowCap_OneMore(limit) == 3 * limit + 1
\* `.limit(limit * 3)`: the number of joined rows the query may return
RowCap(limit) == 3 * limit

\* DatabaseService.get_gas_stations_with_prices_bulk(None, ff, limit):
\* one query, at most 3 * limit joined rows, grouped by station; a later
\* row of the same station and fuel overwrites an earlier one.  The set of
\* results the call can return: the station ids in order, their
\* current_prices, the joined rows read and the round trips made.
BulkOutcomes(ff, limit) ==
    LET all == JoinedRows(ff)
        n == Min(RowCap(limit), Cardinality(all))
        Kept == {kept \in SUBSET all :
                    /\ Cardinality(kept) = n
                    /\ \A a \in kept, b \in all \ kept : ~RowBefore(b, a)}
        Outcome(kept, last) ==
            LET shown == {j \in kept : RowHasPrice(j)}
                sids == {j.sid : j \in kept}
                order == SubSeq(InNameOrder(sids), 1, Min(limit, Cardinality(sids)))
                ret == {order[i] : i \in 1..Len(order)}
                fuelsOf(s) == {j.fuel : j \in {k \in shown : k.sid = s}}
            IN  [order |-> order,
                 view |-> [s \in ret |-> [f \in fuelsOf(s) |->
                             (CHOOSE j \in last : j.sid = s /\ j.fuel = f).price]],
                 rows |-> {<<j.sid, j.fuel, j.pid>> : j \in {k \in kept : k.fuel # None}},
                 read |-> Cardinality(kept),
                 executes |-> BulkExecutes(kept)]
        Last(kept) ==
            LET shown == {j \in kept : RowHasPrice(j)}
            IN  {last \in SUBSET shown :
                    /\ \A j \in shown : \E k \in last : k.sid = j.sid /\ k.fuel = j.fuel
                    /\ \A j, k \in last : (j.sid = k.sid /\ j.fuel = k.fuel) => j = k}
    IN  UNION {{Outcome(kept, last) : last \in Last(kept)} : kept \in Kept}

get_gas_stations_with_prices_bulk(ff, limit) ==
    /\ \E o \in BulkOutcomes(ff, limit) :
          obs' = [op |-> "bulk", order |-> o.order, view |-> o.view, rows |-> o.rows,
                  after |-> AnsweredCommit,
                  during |-> {k \in PairsUnderWrite : ff = None \/ k[2] = Lower(ff)}]
    /\ UNCHANGED <<stations, prices, reports, req, now, lastCommitted>>

\* limit values of the listing request
BulkLimits == {1, 2}

GetGasStationsBulk ==
    \E ff \in {None} \cup FuelInputs, limit \in BulkLimits :
        get_gas_stations_with_prices_bulk(ff, limit)

\* ---------------------------------------------------------------- specification
Next ==
    \/ \E r \in Requests : ReportPriceValidate(r)
    \/ \E r \in Requests : ReportPriceLookup(r)
    \/ \E r \in Requests : Flush(r)
    \/ \E r \in Requests : SelectStation(r)
    \/ \E r \in Requests : Commit(r)
    \/ \E r \in Requests : Refresh(r)
    \/ \E r \in Requests : Fail(r)
    \/ GetCurrentPrices
    \/ GetGasStationsBulk

Spec == Init /\ [][Next]_vars

\* the write path alone: report_price requests
NextWrite ==
    \/ \E r \in Requests : ReportPriceValidate(r)
    \/ \E r \in Requests : ReportPriceLookup(r)
    \/ \E r \in Requests : Flush(r)
    \/ \E r \in Requests : SelectStation(r)
    \/ \E r \in Requests : Commit(r)
    \/ \E r \in Requests : Refresh(r)
    \/ \E r \in Requests : Fail(r)

SpecWrite == Init /\ [][NextWrite]_vars

TypeOK ==
    /\ now \in 1..(MaxRequests + 1)
    /\ \A r \in Requests : req[r].pc \in {"idle", "lookup", "flush", "select", "commit", "refresh", "done"}

\* ---------------------------------------------------------------- claims
ReportOf(r) == {x \in reports : x.id = r}
PriceOf(r) == {p \in prices : p.id = r}
Succeeded(r) == req[r].pc = "done" /\ req[r].resp.status = 200
PairRows(s, f) == {p \in CurrentRowsOf(s) : p.fuel_type = f}
StationKnown(s) == s \in DOMAIN stations /\ stations[s].is_active

\* C1: in every store state reached by price report ingestions, each
\* (station, fuel type) pair has at most one price row that is current and
\* validated.
C1_AtMostOneCurrent ==
    \A s \in StationIds, f \in FuelTypes : Cardinality(PairRows(s, f)) <= 1

\* C2: a read of station S that follows a successful ingestion of
\* (S, F, P), with no commit in between, shows exactly P for F, in
\* get_current_prices and in the bulk station view alike.
C2_ReadReflectsReport ==
    (obs.op # None /\ obs.after.r # 0 /\ obs.after.gas_station_id \in DOMAIN obs.view)
        => LET v == obs.view[obs.after.gas_station_id]
           IN  /\ obs.after.fuel_type \in DOMAIN v
               /\ v[obs.after.fuel_type] = obs.after.price

\* C3: ingestion is atomic: a step that makes anything of request r visible
\* in the store makes all of it visible: the report, processed; the derived
\* price; every formerly current price of the pair no longer current; the
\* station's total_reports one higher and last_price_update set.
C3_AllOrNone ==
    [][\A r \in Requests :
         (ReportOf(r) = {} /\ PriceOf(r) = {} /\ (ReportOf(r)' # {} \/ PriceOf(r)' # {}))
         => LET s == req[r].gas_station_id
                f == Lower(req[r].fuel_type)
            IN  /\ \E x \in reports' : x.id = r /\ x.status = "processed"
                /\ \E p \in prices' : p.id = r /\ p.gas_station_id = s /\ p.fuel_type = f
                /\ \A p \in PairRows(s, f) :
                      \E q \in prices' : q.id = p.id /\ ~q.is_current
                /\ stations'[s].total_reports = stations[s].total_reports + 1
                /\ stations'[s].last_price_update = req[r].at]_vars

\* C4: a read that runs while a write to (S, F) is in flight, where a
\* current validated price existed before the write, fetches exactly one
\* current price for the pair: never none, never two.
C4_ReaderSeesOne ==
    \A k \in obs.during :
        Cardinality({x \in obs.rows : x[1] = k[1] /\ x[2] = k[2]}) = 1

\* C5: when two ingestions for the same (station, fuel type) are in flight
\* together and both have committed, the store holds exactly one current
\* validated price for the pair.
C5_ConcurrentWritersOneCurrent ==
    \A r1, r2 \in Requests :
        (/\ r1 # r2
         /\ req[r1].pc = "refresh" /\ req[r2].pc = "refresh"
         /\ req[r1].gas_station_id = req[r2].gas_station_id
         /\ Lower(req[r1].fuel_type) = Lower(req[r2].fuel_type))
        => Cardinality(PairRows(req[r1].gas_station_id, Lower(req[r1].fuel_type))) = 1

\* nothing of request r is in the store
NoTrace(r) == ReportOf(r) = {} /\ PriceOf(r) = {} /\ req[r].grew = 0

\* the report of request r, processed, and its derived price are in the store
AllWritten(r) ==
    /\ \E x \in ReportOf(r) : x.status = "processed"
    /\ PriceOf(r) # {}

\* C6 (as claimed): a request that failed or was cancelled at any await of
\* create_price_report (flush, station select, commit, refresh) has left
\* no report, no price and no counter change in the store.
C6_FailureLeavesNothing ==
    \A r \in Requests :
        (req[r].pc = "done" /\ req[r].failedAt # None) => NoTrace(r)

\* C6 (amended): a request that failed at flush, at the station select or at
\* commit has left nothing in the store; one that failed at refresh, after
\* the commit, has left its report, processed, and its derived price.
C6_FailureBeforeCommitLeavesNothing ==
    \A r \in Requests :
        (req[r].pc = "done" /\ req[r].failedAt # None)
        => IF req[r].failedAt = "refresh" THEN AllWritten(r) ELSE NoTrace(r)

C6_Witness ==
    \E r \in Requests :
        /\ req[r].pc = "done" /\ req[r].failedAt = "commit" /\ NoTrace(r)
        /\ \E q \in Requests : req[q].pc = "done" /\ req[q].failedAt = "refresh"

\* C7: a request the validation collaborator refused is answered at once
\* with status 400 and the collaborator's message, never enters
\* create_price_report and leaves nothing in the store; whatever is in
\* flight or in the store comes from a request the collaborator accepted.
C7_ValidationFirst ==
    \A r \in Requests :
        /\ req[r].validation_msg # None
            => /\ req[r].pc = "done"
               /\ req[r].resp = [status |-> 400, detail |-> req[r].validation_msg]
               /\ req[r].failedAt = None
               /\ NoTrace(r)
        /\ (InFlight(r) \/ ReportOf(r) # {} \/ PriceOf(r) # {})
            => req[r].validation_msg = None

C7_Witness ==
    \E r \in Requests :
        /\ req[r].pc = "done" /\ req[r].validation_msg \in Messages
        /\ req[r].resp.status = 400
        /\ req[r].gas_station_id = "s1" /\ req[r].fuel_type = "magna"

NotFoundResp == [status |-> 404, detail |-> "Gasolinera no encontrada"]
NotSoldResp == [status |-> 400, detail |-> "Esta gasolinera no vende"]

\* no report or price row names a station that is missing or inactive, and
\* no such station's row has changed
NothingForUnknownStations ==
    /\ \A x \in reports : StationKnown(x.gas_station_id)
    /\ \A p \in prices : StationKnown(p.gas_station_id)
    /\ \A s \in DOMAIN stations :
          ~stations[s].is_active => stations[s] = InitStations[s]

\* C8 (as claimed): a report for a station that does not exist or is
\* inactive is answered NotFound, and nothing is persisted or changed.
C8_UnknownStationNotFound ==
    /\ \A r \in Requests :
          (req[r].pc = "done" /\ req[r].gas_station_id # None
                              /\ ~StationKnown(req[r].gas_station_id))
          => req[r].resp = NotFoundResp
    /\ NothingForUnknownStations

\* C8 (amended): a report the validation collaborator accepted, for a
\* station that does not exist or is inactive, is answered NotFound and
\* never enters create_price_report; nothing is persisted or changed for
\* such a station.
C8_AcceptedUnknownStationNotFound ==
    /\ \A r \in Requests :
          (req[r].gas_station_id # None /\ ~StationKnown(req[r].gas_station_id))
          => /\ req[r].pc \in {"lookup", "done"}
             /\ (req[r].pc = "done" /\ req[r].validation_msg = None)
                   => req[r].resp = NotFoundResp
    /\ NothingForUnknownStations

C8_Witness ==
    /\ \E r \in Requests :
          /\ req[r].pc = "done" /\ req[r].gas_station_id = "s2"
          /\ req[r].validation_msg = None /\ req[r].resp = NotFoundResp
    /\ \E r \in Requests :
          /\ req[r].pc = "done" /\ req[r].gas_station_id = "s3"
          /\ req[r].validation_msg = None /\ req[r].resp = NotFoundResp

\* the station of request r is active and does not sell the declared fuel
FuelUnsupported(r) ==
    /\ StationKnown(req[r].gas_station_id)
    /\ Lower(req[r].fuel_type) \notin stations[req[r].gas_station_id].has

\* no report or price row carries a fuel type its station does not sell
NothingForUnsoldFuel ==
    /\ \A x \in reports : x.fuel_type \in stations[x.gas_station_id].has
    /\ \A p \in prices : p.source = "user_report"
                            => p.fuel_type \in stations[p.gas_station_id].has

\* C9 (as claimed): a report for an active station that does not sell the
\* declared fuel type is answered InvalidRequest, and nothing is persisted.
C9_UnsoldFuelInvalid ==
    /\ \A r \in Requests :
          (req[r].pc = "done" /\ FuelUnsupported(r)) => req[r].resp = NotSoldResp
    /\ NothingForUnsoldFuel

\* C9 (amended): a report the validation collaborator accepted, for an
\* active station that does not sell the declared fuel type, is answered
\* InvalidRequest and never enters create_price_report; nothing is persisted
\* for a fuel type the station does not sell, and the station row of such a
\* request is not changed by it.
C9_AcceptedUnsoldFuelInvalid ==
    /\ \A r \in Requests :
          (req[r].pc # "idle" /\ FuelUnsupported(r))
          => /\ req[r].pc \in {"lookup", "done"}
             /\ req[r].grew = 0
             /\ (req[r].pc = "done" /\ req[r].validation_msg = None)
                   => req[r].resp = NotSoldResp
    /\ NothingForUnsoldFuel

C9_Witness ==
    \E r \in Requests :
        /\ req[r].pc = "done" /\ req[r].gas_station_id = "s1"
        /\ req[r].fuel_type = "diesel" /\ req[r].validation_msg = None
        /\ req[r].resp = NotSoldResp

\* C10: every successful ingestion has persisted exactly one report row,
\* processed, and exactly one derived price row, has raised its station's
\* total_reports by exactly 1 and set last_price_update to the time it read
\* the clock; its commit changes no other station and no other row.
C10_IngestionEffect ==
    [][\A r \in Requests :
         /\ (req[r].pc = "commit" /\ req'[r].pc = "refresh")
            => LET s == req[r].gas_station_id
               IN  /\ reports \subseteq reports' /\ prices \subseteq prices'
                   /\ Cardinality(reports' \ reports) = 1
                   /\ Cardinality(prices' \ prices) = 1
                   /\ stations'[s].last_price_update = req[r].at
                   /\ \A t \in DOMAIN stations : t # s => stations'[t] = stations[t]
         /\ (req[r].pc = "refresh" /\ Succeeded(r)')
            => /\ Cardinality(ReportOf(r)) = 1
               /\ \A x \in ReportOf(r) : x.status = "processed"
               /\ Cardinality(PriceOf(r)) = 1
               /\ req[r].grew = 1]_vars

\* ---------------------------------------------------------------- the store read by the listings
\* text columns and text filters are sequences of one-letter strings; an
\* absent (None) or empty text is <<>>, which is what `x or ""` and the
\* truthiness test `if city` make of both
LowerChar(c) ==
    CASE c = "L" -> "l" [] c = "M" -> "m" [] c = "X" -> "x" [] c = "D" -> "d"
      [] c = "G" -> "g" [] c = "P" -> "p" [] c = "S" -> "s" [] OTHER -> c

\* str.lower()
LowerText(t) == [i \in 1..Len(t) |-> LowerChar(t[i])]

\* needle in hay (Python substring test)
Contains(needle, hay) ==
    \E i \in 0..(Len(hay) - Len(needle)) : SubSeq(hay, i + 1, i + Len(needle)) = needle

ReadStationIds == {"s1", "s2", "s3", "s4", "s5"}

\* latitude and longitude columns are held in units of 1/UnitsPerDegree of
\* a degree, so that the differences the endpoints compute are exact
UnitsPerDegree == 111

\* the gas_stations rows the listings read, named after their ids
ReadCatalog(s) ==
    CASE s = "s1" -> [is_active |-> TRUE, has |-> {"magna", "premium"},
                      total_reports |-> 0, last_price_update |-> 0,
                      city |-> <<"L", "e">>, state |-> <<"G">>, brand |-> <<"P">>,
                      latitude |-> 1, longitude |-> 1]
      [] s = "s2" -> [is_active |-> TRUE, has |-> {"magna"},
                      total_reports |-> 0, last_price_update |-> 0,
                      city |-> <<"L", "e">>, state |-> <<"G">>, brand |-> <<"S">>,
                      latitude |-> 1, longitude |-> 3]
      [] s = "s3" -> [is_active |-> TRUE, has |-> {"diesel"},
                      total_reports |-> 0, last_price_update |-> 0,
                      city |-> <<"M", "x">>, state |-> <<"D">>, brand |-> <<"P">>,
                      latitude |-> 4, longitude |-> 5]
      [] s = "s4" -> [is_active |-> TRUE, has |-> {"magna"},
                      total_reports |-> 0, last_price_update |-> 0,
                      city |-> <<"M", "x">>, state |-> <<"D">>, brand |-> <<"S">>,
                      latitude |-> 2, longitude |-> 2]
      [] OTHER    -> [is_active |-> TRUE, has |-> {"magna"},
                      total_reports |-> 0, last_price_update |-> 0,
                      city |-> <<"L", "e">>, state |-> <<"G">>, brand |-> <<"P">>,
                      latitude |-> 6, longitude |-> 6]

\* the stations switched off (is_active = false) in a store
InactiveSets == {{}, {"s2"}, ReadStationIds}

PriceRow(id, s, f, p, current) ==
    [id |-> id, gas_station_id |-> s, fuel_type |-> f, price |-> p,
     source |-> "official", is_current |-> current,
     validation_status |-> "validated", created_at |-> 0]

\* gas_prices rows every store holds: s1 sells magna (with one superseded
\* row) and premium, s3 only diesel (a validated price nine days old and a
\* current one still pending validation)
FixedPrices ==
    {PriceRow(10, "s1", "magna", 18, FALSE), PriceRow(11, "s1", "magna", 20, TRUE),
     PriceRow(12, "s1", "premium", 24, TRUE),
     [PriceRow(13, "s3", "diesel", 23, TRUE) EXCEPT !.created_at = 0 - 9],
     [PriceRow(17, "s3", "diesel", 26, TRUE) EXCEPT !.validation_status = "pending"]}

\* gas_prices rows a store may hold besides; without them s2, s5 and s4
\* have no price at all; the magna price of s4 is 0
OptionalPrices ==
    {PriceRow(14, "s2", "magna", 21, TRUE), PriceRow(15, "s5", "magna", 18, TRUE),
     PriceRow(16, "s4", "magna", 0, TRUE)}

InitRead ==
    /\ \E inactive \in InactiveSets, extra \in SUBSET OptionalPrices :
          /\ stations = [s \in ReadStationIds |->
                            [ReadCatalog(s) EXCEPT !.is_active = s \notin inactive]]
          /\ prices = FixedPrices \cup extra
    /\ reports = {}
    /\ req = [r \in Requests |-> IdleReq]
    /\ now = 1
    /\ obs = NoObs
    /\ lastCommitted = NoCommit

\* ---------------------------------------------------------------- GET /gas-stations/
\* an optional number of a query string is the empty set or a singleton;
\* Python truthiness: absent and 0 are both false
Truthy(opt) == \E v \in opt : v # 0
ValueOf(opt) == CHOOSE v \in opt : TRUE

LatitudeInputs == {{}, {0}, {1}}
LongitudeInputs == {{}, {1}}
RadiusInputs == {2, 5}
CityInputs == {<<>>, <<"l">>, <<"M", "x">>}
StateInputs == {<<>>, <<"d">>}
BrandInputs == {<<>>, <<"p">>}
\* "kerosene" is a value outside magna/premium/diesel
FuelFilters == {None, "Magna", "diesel", "kerosene"}
LimitInputs == {1, 2, 5}
OffsetInputs == {0, 1, 2}

ListingRequests ==
    [latitude : LatitudeInputs, longitude : LongitudeInputs, radius_km : RadiusInputs,
     city : CityInputs, state : StateInputs, brand : BrandInputs,
     fuel_type : FuelFilters, limit : LimitInputs, offset : OffsetInputs]

KmPerDegree == 111

\* (sqrt(lat_diff**2 + lng_diff**2) * 111) ** 2 for a station and a centre
Distance2(st, lat, lng) ==
    LET lat_diff == st.latitude - lat
        lng_diff == st.longitude - lng
    IN  ((lat_diff * lat_diff + lng_diff * lng_diff) * KmPerDegree * KmPerDegree)
            \div (UnitsPerDegree * UnitsPerDegree)

\* if distance_km > radius_km: continue (gas_stations.py:54), on squares
TooFar_Exclusive(d2, radius_km) == d2 >= radius_km * radius_km
TooFar(d2, radius_km) == d2 > radius_km * radius_km

ISqrt(n) == CHOOSE k \in 0..n : k * k <= n /\ n < (k + 1) * (k + 1)

\* round(distance_km, 2), in hundredths of a kilometre
Round2(d2) ==
    IF d2 = 0 THEN 0
    ELSE LET lo == 100 * ISqrt(d2)
         IN  CHOOSE k \in lo..(lo + 100) :
                /\ (2 * k - 1) * (2 * k - 1) <= 40000 * d2
                /\ 40000 * d2 < (2 * k + 1) * (2 * k + 1)

\* x.get("distance_km", 999), in hundredths
DistanceDefault == 999
SortKey(item) == IF item.has_distance THEN item.distance_km ELSE 100 * DistanceDefault

\* list.sort(key=...): stable and ascending; keys[i] is the key of items[i]
StableSort(items, keys) ==
    LET n == Len(items)
        Pos(i) == 1 + Cardinality({j \in 1..n :
                        keys[j] < keys[i] \/ (keys[j] = keys[i] /\ j < i)})
    IN  [p \in 1..n |-> items[CHOOSE i \in 1..n : Pos(i) = p]]

SortByDistance_Unsorted(items) == items
SortByDistance(items) == StableSort(items, [i \in 1..Len(items) |-> SortKey(items[i])])

\* city and city.lower() not in (station_dict.get("city") or "").lower()
TextRejects(filter, column) ==
    filter # <<>> /\ ~Contains(LowerText(filter), LowerText(column))

\* if latitude and longitude and radius_km (gas_stations.py:46)
GeoFilterOn(q) == Truthy(q.latitude) /\ Truthy(q.longitude) /\ q.radius_km # 0

\* the loop body of get_gas_stations: TRUE when the station is appended
PassesFilters(q, s) ==
    /\ GeoFilterOn(q) =>
          ~TooFar(Distance2(stations[s], ValueOf(q.latitude), ValueOf(q.longitude)),
                  q.radius_km)
    /\ ~TextRejects(q.city, stations[s].city)
    /\ ~TextRejects(q.state, stations[s].state)
    /\ ~TextRejects(q.brand, stations[s].brand)

\* the station view handed back: distance_km is set only under the geo test
StationView(q, o, s) ==
    [id |-> s,
     has_distance |-> GeoFilterOn(q),
     distance_km |-> IF GeoFilterOn(q)
                     THEN Round2(Distance2(stations[s], ValueOf(q.latitude),
                                           ValueOf(q.longitude)))
                     ELSE 0,
     current_prices |-> o.view[s]]

\* filtered_stations[offset:offset + limit]
Slice(seq, offset, limit) ==
    IF offset >= Len(seq) THEN <<>>
    ELSE SubSeq(seq, offset + 1, Min(offset + limit, Len(seq)))

\* the status of the listing's answer: it returns whatever the page holds
ListingStatus_NotFoundOnEmpty(page) == IF page = <<>> THEN 404 ELSE 200
ListingStatus(page) == 200

\* api.gas_stations.get_gas_stations over the bulk result o: filter in
\* memory, slice, then sort the page by distance when both coordinates are
\* truthy.  ask, bulk, filtered, of and trips are history: the request,
\* what the bulk call returned, the ids that passed the filters, the
\* stations whose rows were read and the store round trips made.
ListingResponse(q, o) ==
    LET Keep(s) == PassesFilters(q, s)
        filtered == SelectSeq(o.order, Keep)
        picked == Slice(filtered, q.offset, q.limit)
        page == [i \in 1..Len(picked) |-> StationView(q, o, picked[i])]
        paginated == IF Truthy(q.latitude) /\ Truthy(q.longitude)
                     THEN SortByDistance(page) ELSE page
    IN  [op |-> "listing", status |-> ListingStatus(paginated),
         stations |-> paginated, total |-> Len(paginated),
         limit |-> q.limit, offset |-> q.offset,
         filters |-> [latitude |-> q.latitude, longitude |-> q.longitude,
                      radius_km |-> q.radius_km, city |-> q.city, state |-> q.state,
                      brand |-> q.brand, fuel_type |-> q.fuel_type],
         bulk |-> [order |-> o.order, view |-> o.view, read |-> o.read],
         filtered |-> filtered, trips |-> o.executes, of |-> Range(o.order),
         ask |-> q]

\* one request of the read API is served at a time: the store read here
\* does not change, so answers do not depend on the order of the requests
Idle == obs.op = None

\* the answer is handed to the client
Respond ==
    /\ ~Idle
    /\ obs' = NoObs
    /\ UNCHANGED <<stations, prices, reports, req, now, lastCommitted>>

GetGasStations ==
    /\ Idle
    /\ \E q \in ListingRequests :
         \E o \in BulkOutcomes(q.fuel_type, q.limit) : obs' = ListingResponse(q, o)
    /\ UNCHANGED <<stations, prices, reports, req, now, lastCommitted>>

\* ---------------------------------------------------------------- GET /gas-stations/legacy
\* the legacy listing is modelled for requests without coordinates (the
\* SQL haversine branch of DatabaseService.get_gas_stations is not taken)
LegacyRequests ==
    [city : CityInputs, state : StateInputs, brand : BrandInputs,
     fuel_type : FuelFilters, limit : LimitInputs, offset : OffsetInputs]

\* the has_magna / has_premium / has_diesel condition of the ORM query
SellsFiltered(st, ff) ==
    ff = None \/ Lower(ff) \notin FuelTypes \/ Lower(ff) \in st.has

\* DatabaseService.get_gas_stations(None, None, 25, city, state, brand,
\* fuel_type, limit, offset): active stations by name, filtered and paged
\* in the query
get_gas_stations(q) ==
    LET match == {s \in DOMAIN stations :
                    /\ stations[s].is_active
                    /\ ~TextRejects(q.city, stations[s].city)
                    /\ ~TextRejects(q.state, stations[s].state)
                    /\ ~TextRejects(q.brand, stations[s].brand)
                    /\ SellsFiltered(stations[s], q.fuel_type)}
    IN  Slice(InNameOrder(match), q.offset, q.limit)

\* api.gas_stations.get_gas_stations_legacy: one get_current_prices call
\* for every station the ORM query returned
GetGasStationsLegacy ==
    /\ Idle
    /\ \E q \in LegacyRequests :
         LET found == get_gas_stations(q)
             ids == {found[i] : i \in 1..Len(found)}
         IN  \E cp \in [ids -> UNION {CurrentPricesViews(s) : s \in ids}] :
               /\ \A s \in ids : cp[s] \in CurrentPricesViews(s)
               /\ obs' = [op |-> "legacy", status |-> 200,
                          stations |-> [i \in 1..Len(found) |->
                              [id |-> found[i], has_distance |-> FALSE,
                               distance_km |-> 0, current_prices |-> cp[found[i]]]],
                          total |-> Len(found), limit |-> q.limit, offset |-> q.offset,
                          filters |-> [latitude |-> {}, longitude |-> {},
                                       radius_km |-> 25, city |-> q.city,
                                       state |-> q.state, brand |-> q.brand,
                                       fuel_type |-> q.fuel_type],
                          bulk |-> [order |-> <<>>, view |-> <<>>, read |-> 0],
                          filtered |-> found, trips |-> 1 + Len(found), of |-> ids]
    /\ UNCHANGED <<stations, prices, reports, req, now, lastCommitted>>

\* ---------------------------------------------------------------- price read queries
\* gas_prices JOIN gas_stations WHERE is_current AND validated AND is_active
JoinActive ==
    {p \in prices : /\ IsCurrentValidated(p)
                    /\ p.gas_station_id \in DOMAIN stations
                    /\ stations[p.gas_station_id].is_active}

\* ORDER BY GasPrice.price ASC; the stores read here hold no two current
\* rows of equal price, rows of equal price are put in id order
OrderByPrice(rows) ==
    LET Pos(r) == 1 + Cardinality({q \in rows :
                        q.price < r.price \/ (q.price = r.price /\ q.id < r.id)})
    IN  [p \in 1..Cardinality(rows) |-> CHOOSE r \in rows : Pos(r) = p]

\* .limit(limit)
Take(seq, limit) == SubSeq(seq, 1, Min(limit, Len(seq)))

\* column.ilike(f"%{x}%")
ILike(column, x) == Contains(LowerText(x), LowerText(column))

\* DatabaseService.get_current_prices_all_stations_optimized
get_current_prices_all_stations_optimized(ff, city, state, limit) ==
    LET rows == {p \in JoinActive :
                    /\ ff # None => p.fuel_type = Lower(ff)
                    /\ city # <<>> => ILike(stations[p.gas_station_id].city, city)
                    /\ state # <<>> => ILike(stations[p.gas_station_id].state, state)}
    IN  Take(OrderByPrice(rows), limit)

\* DatabaseService.search_stations_by_region
search_stations_by_region(region, ff, limit) ==
    LET rows == {p \in JoinActive :
                    /\ \/ ILike(stations[p.gas_station_id].city, region)
                       \/ ILike(stations[p.gas_station_id].state, region)
                    /\ p.fuel_type = Lower(ff)}
    IN  Take(OrderByPrice(rows), limit)

\* timedelta(days=7): the clock of the store read here counts days
StatisticsDays == 7

\* DatabaseService.get_price_statistics: the sample rows of the last week;
\* gas_stations is joined only under a region, and without is_active
StatisticsSample_WithSuperseded(ff, region) ==
    {p \in prices :
        /\ p.fuel_type = Lower(ff)
        /\ p.created_at >= now - StatisticsDays
        /\ p.validation_status = "validated"
        /\ region # <<>> =>
              /\ p.gas_station_id \in DOMAIN stations
              /\ \/ ILike(stations[p.gas_station_id].state, region)
                 \/ ILike(stations[p.gas_station_id].city, region)}
StatisticsSample(ff, region) ==
    {p \in prices :
        /\ p.fuel_type = Lower(ff)
        /\ p.created_at >= now - StatisticsDays
        /\ IsCurrentValidated(p)
        /\ region # <<>> =>
              /\ p.gas_station_id \in DOMAIN stations
              /\ \/ ILike(stations[p.gas_station_id].state, region)
                 \/ ILike(stations[p.gas_station_id].city, region)}

RECURSIVE SumOf(_)
SumOf(rows) ==
    IF rows = {} THEN 0
    ELSE LET r == CHOOSE x \in rows : TRUE IN r.price + SumOf(rows \ {r})

\* round(mean(prices), 2), in hundredths
MeanRound2(rows) ==
    (200 * SumOf(rows) + Cardinality(rows)) \div (2 * Cardinality(rows))

\* the dict returned over a sample: {"error": ...} alone when it is empty
\* (`if not prices`, before mean() is called), the statistics otherwise;
\* average and range are in hundredths
StatisticsOf_ZeroFilled(ff, region, sample) ==
    [fuel_type |-> ff, region |-> region, sample_size |-> Cardinality(sample),
     average |-> 0, minimum |-> 0, maximum |-> 0, range |-> 0]
StatisticsOf(ff, region, sample) ==
    IF sample = {}
    THEN [error |-> "No hay datos de precios disponibles"]
    ELSE LET Lowest == CHOOSE p \in sample : \A q \in sample : p.price <= q.price
             Highest == CHOOSE p \in sample : \A q \in sample : q.price <= p.price
         IN  [fuel_type |-> ff, region |-> region,
              sample_size |-> Cardinality(sample),
              average |-> MeanRound2(sample), minimum |-> Lowest.price,
              maximum |-> Highest.price,
              range |-> 100 * (Highest.price - Lowest.price)]

get_price_statistics(ff, region) == StatisticsOf(ff, region, StatisticsSample(ff, region))

\* the stations whose rows a sequence of price rows holds
StationsOf(rows) == {rows[i].gas_station_id : i \in 1..Len(rows)}

\* ---------------------------------------------------------------- GET /prices/current
SortInputs == {"price", "distance", "updated"}

CurrentRequests ==
    [fuel_type : FuelFilters, city : CityInputs, state : StateInputs,
     latitude : LatitudeInputs, longitude : LongitudeInputs,
     radius_km : RadiusInputs, sort_by : SortInputs, limit : LimitInputs]

\* if distance_approx <= radius_km (prices.py:54), on squares
WithinRadius(d2, radius_km) == d2 <= radius_km * radius_km

\* one entry of prices_data, with distance_km when the radius test ran
PriceView(q, p, geo) ==
    [gas_station_id |-> p.gas_station_id, fuel_type |-> p.fuel_type,
     price |-> p.price, updated_at |-> p.created_at,
     has_distance |-> geo,
     distance_km |-> IF geo
                     THEN Round2(Distance2(stations[p.gas_station_id],
                                           ValueOf(q.latitude), ValueOf(q.longitude)))
                     ELSE 0]

\* api.prices.get_current_prices
CurrentPricesResponse(q) ==
    LET data == get_current_prices_all_stations_optimized(q.fuel_type, q.city,
                                                          q.state, q.limit)
        geo == GeoFilterOn(q)
        Near(p) == WithinRadius(Distance2(stations[p.gas_station_id],
                                          ValueOf(q.latitude), ValueOf(q.longitude)),
                                q.radius_km)
        kept == IF geo THEN SelectSeq(data, Near) ELSE data
        views == [i \in 1..Len(kept) |-> PriceView(q, kept[i], geo)]
        sorted == IF q.sort_by = "updated"
                  THEN StableSort(views, [i \in 1..Len(views) |-> 0 - views[i].updated_at])
                  ELSE IF q.sort_by = "distance" /\ Truthy(q.latitude) /\ Truthy(q.longitude)
                  THEN SortByDistance(views)
                  ELSE StableSort(views, [i \in 1..Len(views) |-> views[i].price])
    IN  [op |-> "current", status |-> 200, prices |-> sorted, total |-> Len(sorted),
         filters |-> [fuel_type |-> q.fuel_type, city |-> q.city, state |-> q.state,
                      radius_km |-> IF Truthy(q.latitude) /\ Truthy(q.longitude)
                                    THEN {q.radius_km} ELSE {}],
         ask |-> q, of |-> StationsOf(data)]

GetCurrentPricesList ==
    /\ Idle
    /\ \E q \in CurrentRequests : obs' = CurrentPricesResponse(q)
    /\ UNCHANGED <<stations, prices, reports, req, now, lastCommitted>>

\* ---------------------------------------------------------------- cheapest by region
CheapestRequests ==
    [fuel_type : FuelFilters \ {None}, city : CityInputs, state : StateInputs,
     limit : LimitInputs]

\* api.gas_stations.get_cheapest_stations and api.prices.get_cheapest_prices:
\* 400 without city and state, 404 when the region search returns nothing
CheapestResponse(op, q) ==
    LET region == IF q.city # <<>> THEN q.city ELSE q.state
        found == search_stations_by_region(region, q.fuel_type, q.limit)
    IN  IF q.city = <<>> /\ q.state = <<>>
        THEN [op |-> op, status |-> 400,
              detail |-> "Debe especificar al menos ciudad o estado",
              stations |-> <<>>, total_stations_found |-> 0, ask |-> q, of |-> {}]
        ELSE IF found = <<>>
        THEN [op |-> op, status |-> 404, detail |-> "No se encontraron gasolineras",
              stations |-> <<>>, total_stations_found |-> 0, ask |-> q, of |-> {}]
        ELSE [op |-> op, status |-> 200, detail |-> None,
              stations |-> [i \in 1..Len(found) |->
                              [gas_station_id |-> found[i].gas_station_id,
                               price |-> found[i].price]],
              total_stations_found |-> Len(found), ask |-> q, of |-> StationsOf(found)]

GetCheapestStations ==
    /\ Idle
    /\ \E q \in CheapestRequests : obs' = CheapestResponse("cheapest_stations", q)
    /\ UNCHANGED <<stations, prices, reports, req, now, lastCommitted>>

GetCheapestPrices ==
    /\ Idle
    /\ \E q \in CheapestRequests : obs' = CheapestResponse("cheapest_prices", q)
    /\ UNCHANGED <<stations, prices, reports, req, now, lastCommitted>>

\* ---------------------------------------------------------------- GET /prices/statistics
RegionInputs == {<<>>, <<"l">>, <<"d">>}

\* api.prices.get_price_statistics: 404 when the sample is empty
GetPriceStatistics ==
    /\ Idle
    /\ \E ff \in FuelFilters \ {None}, region \in RegionInputs :
         LET stats == get_price_statistics(ff, region)
         IN  obs' = [op |-> "statistics",
                     status |-> IF "error" \in DOMAIN stats THEN 404 ELSE 200,
                     stats |-> stats, ask |-> [fuel_type |-> ff, region |-> region],
                     of |-> {p.gas_station_id : p \in StatisticsSample(ff, region)}]
    /\ UNCHANGED <<stations, prices, reports, req, now, lastCommitted>>

\* ---------------------------------------------------------------- GET /gas-stations/{station_id}
DetailIds == ReadStationIds \cup {"s9"}

\* api.gas_stations.get_gas_station: 404 for an unknown or inactive station;
\* current_prices keeps, per fuel type, one of the is_current rows loaded
GetGasStation ==
    /\ Idle
    /\ \E station_id \in DetailIds :
         IF get_gas_station_by_id(station_id) = None
         THEN obs' = [op |-> "detail", status |-> 404,
                      detail |-> "Gasolinera no encontrada", id |-> None,
                      current_prices |-> <<>>, of |-> {}]
         ELSE LET rows == {p \in prices : p.gas_station_id = station_id /\ p.is_current}
                  fs == {p.fuel_type : p \in rows}
              IN  \E pick \in [fs -> rows] :
                    /\ \A f \in fs : pick[f].fuel_type = f
                    /\ obs' = [op |-> "detail", status |-> 200, detail |-> None,
                               id |-> station_id,
                               current_prices |-> [f \in fs |-> pick[f].price],
                               of |-> {station_id}]
    /\ UNCHANGED <<stations, prices, reports, req, now, lastCommitted>>

\* DatabaseService.get_current_prices called for any station id
GetCurrentPricesOf ==
    /\ Idle
    /\ \E s \in ReadStationIds : get_current_prices(s)

NextRead ==
    \/ GetGasStations
    \/ GetGasStationsLegacy
    \/ GetCurrentPricesList
    \/ GetCheapestStations
    \/ GetCheapestPrices
    \/ GetPriceStatistics
    \/ GetGasStation
    \/ GetCurrentPricesOf
    \/ Respond

SpecRead == InitRead /\ [][NextRead]_vars

\* ---------------------------------------------------------------- claims on the listings
\* C11: the station listing makes one store round trip (a constant, at most
\* two) whatever the store holds, whatever the filters and however many
\* stations it returns.
C11_ConstantRoundTrips ==
    obs.op = "listing" => (obs.trips <= 2 /\ obs.trips = 1)

\* a listing that returned five stations
C11_Witness == obs.op = "listing" /\ obs.total = 5 /\ obs.trips = 1

ActiveStations == {s \in DOMAIN stations : stations[s].is_active}

\* the fuel types station s has a current validated price for
PricedFuels(s) == {p.fuel_type : p \in CurrentRowsOf(s)}

\* C12: the bulk query filtered by fuel type F returns no station that lacks
\* a current validated price for F, whether it has no price at all or only
\* prices of other fuel types; without a fuel filter (and a cap that cuts
\* nothing) it returns every active station, a station without prices with
\* an empty current_prices mapping.
C12_FuelFilterExcludesUnpriced ==
    obs.op = "listing" =>
        /\ obs.filters.fuel_type # None =>
              \A s \in Range(obs.bulk.order) :
                  Lower(obs.filters.fuel_type) \in PricedFuels(s)
        /\ (obs.filters.fuel_type = None /\ obs.limit >= Cardinality(ActiveStations)) =>
              /\ Range(obs.bulk.order) = ActiveStations
              /\ \A s \in ActiveStations : DOMAIN obs.bulk.view[s] = PricedFuels(s)

\* the stations whose data (station row, price or price sample) the last
\* answer holds
ReturnedStations ==
    CASE obs.op = "get_current_prices" ->
            {s \in Range(obs.order) : DOMAIN obs.view[s] # {}}
      [] obs.op \in {"listing", "legacy", "current", "cheapest_stations",
                     "cheapest_prices", "statistics", "detail"} -> obs.of
      [] OTHER -> {}

\* C13: no read query returns data of an inactive station: the bulk query,
\* get_gas_stations, get_current_prices_all_stations_optimized,
\* get_gas_station_by_id, get_current_prices, get_price_statistics and
\* search_stations_by_region return no station, price or price sample of a
\* station with is_active = false.
C13_NoInactiveData ==
    \A s \in ReturnedStations : stations[s].is_active

\* the stations a listing request matches: the active stations the bulk
\* query joins under the fuel filter that pass the request's radius and
\* text filters, whatever the caps
MatchingStations(q) ==
    {s \in {j.sid : j \in JoinedRows(q.fuel_type)} : PassesFilters(q, s)}

\* the place of a station in the full sequence: by distance to the centre
\* when the page is sorted by distance, by name otherwise
SequenceKey(q, s) ==
    IF Truthy(q.latitude) /\ Truthy(q.longitude)
    THEN Distance2(stations[s], ValueOf(q.latitude), ValueOf(q.longitude))
    ELSE NameRank(s)

Max(a, b) == IF a >= b THEN a ELSE b

\* ids is the slice offset .. offset+limit-1 of the matching stations in
\* sequence order (stations of equal key in any order)
IsPageOf(q, offset, limit, ids) ==
    LET M == MatchingStations(q)
        Before(s) == Cardinality({m \in M : SequenceKey(q, m) < SequenceKey(q, s)})
        UpTo(s) == Cardinality({m \in M : SequenceKey(q, m) <= SequenceKey(q, s)})
    IN  /\ Len(ids) = Min(limit, Max(0, Cardinality(M) - offset))
        /\ \A i \in 1..Len(ids) :
              /\ ids[i] \in M
              /\ Before(ids[i]) <= offset + i - 1
              /\ offset + i - 1 < UpTo(ids[i])
        /\ \A i, j \in 1..Len(ids) : ids[i] = ids[j] => i = j

\* the ids of the station views of an answer, in order
PageIds == [i \in 1..Len(obs.stations) |-> obs.stations[i].id]

\* C14: for every offset and limit the listing returns exactly the elements
\* offset .. offset+limit-1 of the full filtered-and-sorted sequence of
\* matching stations: the sort comes before the slice and the candidate
\* fetch does not cut the sequence short of offset+limit.
C14_PageIsSliceOfSorted ==
    obs.op = "listing" => IsPageOf(obs.filters, obs.offset, obs.limit, PageIds)

\* C15: the candidates the listing gets from the bulk query are a superset
\* of the stations that satisfy the request's filters: every active station
\* that matches the city/state/brand filters and lies within the radius is
\* in the filtered sequence, the bulk query having cut nothing before the
\* in-memory filters ran.
C15_CandidatesCoverMatches ==
    obs.op = "listing" => MatchingStations(obs.filters) \subseteq Range(obs.filtered)

\* the views of the page are in ascending distance_km order, a view
\* without distance_km after every view that has one
AscendingDistance(views) ==
    \A i, j \in 1..Len(views) :
        i < j => /\ views[i].has_distance \/ ~views[j].has_distance
                 /\ (views[i].has_distance /\ views[j].has_distance)
                       => views[i].distance_km <= views[j].distance_km

\* the page is in the order the bulk query gave (station name)
InBulkOrder(views) ==
    \A i, j \in 1..Len(views) : i < j => NameRank(views[i].id) < NameRank(views[j].id)

\* C16: with coordinates present the returned station sequence is in
\* ascending distance_km order, stations lacking a distance last; with a
\* coordinate absent the order of the bulk query (station name) is kept.
C16_SortedByDistanceOrName ==
    obs.op = "listing" =>
        /\ (obs.filters.latitude # {} /\ obs.filters.longitude # {})
              => AscendingDistance(obs.stations)
        /\ (obs.filters.latitude = {} \/ obs.filters.longitude = {})
              => InBulkOrder(obs.stations)

\* a page of three stations whose distance order differs from the name order
C16_Witness ==
    /\ obs.op = "listing" /\ obs.filters.latitude = {1} /\ obs.filters.longitude = {1}
    /\ Len(obs.stations) = 3
    /\ \E i \in 1..2 : NameRank(obs.stations[i].id) > NameRank(obs.stations[i + 1].id)

\* the squared distance of station s to the centre of request q
CentreDistance2(q, s) ==
    Distance2(stations[s], ValueOf(q.latitude), ValueOf(q.longitude))

PassesTextFilters(q, s) ==
    /\ ~TextRejects(q.city, stations[s].city)
    /\ ~TextRejects(q.state, stations[s].state)
    /\ ~TextRejects(q.brand, stations[s].brand)

\* C17: the radius filter is inclusive, in the station listing and in the
\* current-prices listing: a candidate whose distance equals radius_km is
\* kept, and a candidate is dropped by the radius test only when its
\* distance is strictly greater than radius_km.
C17_RadiusInclusive ==
    /\ (obs.op = "listing" /\ GeoFilterOn(obs.filters)) =>
          \A s \in Range(obs.bulk.order) :
              PassesTextFilters(obs.filters, s) =>
                 (s \in Range(obs.filtered)
                    <=> CentreDistance2(obs.filters, s)
                           <= obs.filters.radius_km * obs.filters.radius_km)
    /\ (obs.op = "current" /\ GeoFilterOn(obs.ask)) =>
          \A s \in obs.of :
              ((\E i \in 1..Len(obs.prices) : obs.prices[i].gas_station_id = s)
                 <=> CentreDistance2(obs.ask, s) <= obs.ask.radius_km * obs.ask.radius_km)

\* the station listing has kept a station lying exactly radius_km away
\* (s2, 2 km from the centre) and dropped a farther one
C17_Witness ==
    /\ obs.op = "listing" /\ GeoFilterOn(obs.filters) /\ obs.filters.radius_km = 2
    /\ \E i \in 1..Len(obs.stations) :
          obs.stations[i].id = "s2" /\ obs.stations[i].distance_km = 200
    /\ "s3" \in Range(obs.bulk.order) \ Range(obs.filtered)

\* C18: geographic filtering in the station listing is off only when a
\* coordinate is absent: with latitude or longitude not supplied no station
\* is dropped by distance and no view carries distance_km; with both
\* supplied, whatever their value (0 included), every returned station
\* carries distance_km, and distance_km <= radius_km.
C18_GeoOffOnlyWhenAbsent ==
    obs.op = "listing" =>
        /\ (obs.filters.latitude = {} \/ obs.filters.longitude = {}) =>
              /\ \A i \in 1..Len(obs.stations) : ~obs.stations[i].has_distance
              /\ \A s \in Range(obs.bulk.order) :
                    PassesTextFilters(obs.filters, s) => s \in Range(obs.filtered)
        /\ (obs.filters.latitude # {} /\ obs.filters.longitude # {}) =>
              \A i \in 1..Len(obs.stations) :
                  /\ obs.stations[i].has_distance
                  /\ obs.stations[i].distance_km <= 100 * obs.filters.radius_km

\* the filters a listing answer echoes are the request's
EchoesFilters ==
    obs.filters = [latitude |-> obs.ask.latitude, longitude |-> obs.ask.longitude,
                   radius_km |-> obs.ask.radius_km, city |-> obs.ask.city,
                   state |-> obs.ask.state, brand |-> obs.ask.brand,
                   fuel_type |-> obs.ask.fuel_type]

\* C19: the station listing never errors on empty results: when no station
\* matches the filters, or the store holds no active station, it answers
\* with an empty stations sequence, total 0 and the echo of the filters.
C19_EmptyListingIsNotAnError ==
    (obs.op = "listing" /\ (MatchingStations(obs.filters) = {} \/ ActiveStations = {})) =>
        /\ obs.status = 200
        /\ obs.stations = <<>>
        /\ obs.total = 0
        /\ obs.limit = obs.ask.limit /\ obs.offset = obs.ask.offset
        /\ EchoesFilters

\* a listing whose city filter matches nothing in a store with active
\* stations
C19_Witness ==
    /\ obs.op = "listing" /\ obs.status = 200 /\ obs.total = 0
    /\ ActiveStations # {} /\ MatchingStations(obs.filters) = {}
    /\ obs.filters.city = <<"M", "x">> /\ obs.filters.state = <<>>

\* the last answer is that of a read endpoint whose filter combination
\* matched nothing
NothingMatched ==
    CASE obs.op = "listing" -> MatchingStations(obs.filters) = {}
      [] obs.op = "current" ->
            get_current_prices_all_stations_optimized(obs.ask.fuel_type, obs.ask.city,
                                                      obs.ask.state, obs.ask.limit) = <<>>
      [] obs.op \in {"cheapest_stations", "cheapest_prices"} ->
            /\ obs.ask.city # <<>> \/ obs.ask.state # <<>>
            /\ search_stations_by_region(
                  IF obs.ask.city # <<>> THEN obs.ask.city ELSE obs.ask.state,
                  obs.ask.fuel_type, obs.ask.limit) = <<>>
      [] OTHER -> FALSE

\* the result set of the last answer is empty
EmptyResult ==
    CASE obs.op = "listing" -> obs.stations = <<>>
      [] obs.op = "current" -> obs.prices = <<>>
      [] OTHER -> obs.stations = <<>>

\* C20: a read endpoint whose filter combination matches nothing answers
\* with an empty result set, not with an error: the station listing, the
\* current-prices listing and the cheapest-by-region searches
\* (get_cheapest_stations, get_cheapest_prices).
C20_EmptyResultNotError ==
    NothingMatched => (obs.status = 200 /\ EmptyResult)

\* ---------------------------------------------------------------- claims on the statistics
\* the PriceRecords a statistics request is about: fuel type matching
\* without regard to case, validated, current, at most 7 days old and,
\* under a region, of a station whose city or state contains the region
RecordsAsked(ask) ==
    {p \in prices :
        /\ Lower(p.fuel_type) = Lower(ask.fuel_type)
        /\ p.validation_status = "validated" /\ p.is_current
        /\ now - p.created_at <= 7
        /\ ask.region # <<>> =>
              \/ Contains(LowerText(ask.region), LowerText(stations[p.gas_station_id].city))
              \/ Contains(LowerText(ask.region), LowerText(stations[p.gas_station_id].state))}

Abs(x) == IF x < 0 THEN 0 - x ELSE x

\* C21: get_price_statistics computes over exactly the current validated
\* PriceRecords of the fuel type that are at most 7 days old (of the region
\* when one is given): sample_size is their number, minimum and maximum
\* their least and greatest price, range = maximum - minimum, average their
\* arithmetic mean (to 2 decimal places).
C21_StatisticsOverSample ==
    (obs.op = "statistics" /\ RecordsAsked(obs.ask) # {}) =>
        LET S == RecordsAsked(obs.ask)
            n == Cardinality(S)
        IN  /\ obs.status = 200
            /\ obs.of = {p.gas_station_id : p \in S}
            /\ obs.stats.sample_size = n
            /\ \E p \in S : p.price = obs.stats.minimum
            /\ \A p \in S : obs.stats.minimum <= p.price
            /\ \E p \in S : p.price = obs.stats.maximum
            /\ \A p \in S : p.price <= obs.stats.maximum
            /\ obs.stats.range = 100 * (obs.stats.maximum - obs.stats.minimum)
            /\ 2 * Abs(100 * SumOf(S) - n * obs.stats.average) <= n

\* statistics over three magna prices 18, 20, 21: mean 19.67
C21_Witness ==
    /\ obs.op = "statistics" /\ obs.status = 200
    /\ obs.stats.sample_size = 3 /\ obs.stats.average = 1967
    /\ obs.stats.minimum = 18 /\ obs.stats.maximum = 21 /\ obs.stats.range = 300

\* C22: with no matching record get_price_statistics returns the empty-data
\* signal as a value, a result without sample_size or average, which the
\* endpoint answers as NotFound (404); nothing is raised as an internal
\* error.
C22_EmptySampleIsNotFoundValue ==
    (obs.op = "statistics" /\ RecordsAsked(obs.ask) = {}) =>
        /\ DOMAIN obs.stats = {"error"}
        /\ obs.status = 404

\* statistics asked for diesel, whose only price is nine days old
C22_Witness ==
    /\ obs.op = "statistics" /\ obs.ask.fuel_type = "diesel"
    /\ \E p \in prices : p.fuel_type = "diesel" /\ IsCurrentValidated(p)
    /\ "error" \in DOMAIN obs.stats /\ obs.status = 404

\* C23: a fuel_type filter outside magna/premium/diesel is no match, not an
\* error: the bulk station query and the ORM listing get_gas_stations
\* complete without raising and return no station for that filter.
C23_UnknownFuelMatchesNothing ==
    (obs.op \in {"listing", "legacy"} /\ obs.filters.fuel_type # None
                                      /\ Lower(obs.filters.fuel_type) \notin FuelTypes) =>
        /\ obs.status = 200
        /\ obs.op = "listing" => obs.bulk.order = <<>>
        /\ obs.op = "legacy" => obs.filtered = <<>>

InternalError == [status |-> 500, detail |-> "Error interno del servidor"]

\* C24: report_price answers success only for a request whose report,
\* processed, and derived price were committed; a request whose write failed
\* at flush, station select, commit or refresh is answered 500 and never
\* 200; the expected errors keep their own status and detail (400 with the
\* validation message, 404 for the station, 400 for the unsold fuel) and
\* only a failed write is answered with the generic internal error.
C24_SuccessOnlyAfterCommit ==
    \A r \in Requests :
        req[r].pc = "done" =>
            /\ req[r].resp.status \in {200, 400, 404, 500}
            /\ Succeeded(r) => /\ AllWritten(r)
                               /\ req[r].failedAt = None
                               /\ req[r].validation_msg = None
            /\ req[r].failedAt # None <=> req[r].resp = InternalError
            /\ req[r].resp.status = 500 => req[r].failedAt # None
            /\ req[r].validation_msg # None
                  => req[r].resp = [status |-> 400, detail |-> req[r].validation_msg]
            /\ req[r].resp.status = 404 => req[r].resp = NotFoundResp
            /\ (req[r].resp.status = 400 /\ req[r].validation_msg = None)
                  => req[r].resp = NotSoldResp

C24_Witness ==
    \E r, q \in Requests :
        /\ Succeeded(r) /\ AllWritten(r)
        /\ req[q].pc = "done" /\ req[q].failedAt = "flush"
        /\ req[q].resp = InternalError /\ NoTrace(q)

\* C25: get_gas_stations_with_prices_bulk(limit = L) returns at most L
\* station views, no station identifier twice, and has read at most 3 * L
\* joined rows, whatever the store holds.
C25_BulkIsCapped ==
    obs.op = "listing" =>
        /\ Len(obs.bulk.order) <= obs.ask.limit
        /\ \A i, j \in 1..Len(obs.bulk.order) :
              obs.bulk.order[i] = obs.bulk.order[j] => i = j
        /\ DOMAIN obs.bulk.view = Range(obs.bulk.order)
        /\ obs.bulk.read <= 3 * obs.ask.limit

\* the store holds more than three joined rows and more than one station,
\* the call asked for one station, read three rows and returned one
C25_Witness ==
    /\ obs.op = "listing" /\ obs.ask.limit = 1 /\ obs.ask.fuel_type = None
    /\ Cardinality(JoinedRows(None)) > 3
    /\ obs.bulk.read = 3 /\ Len(obs.bulk.order) = 1

\* C26: every station view the bulk query returns without a fuel filter
\* is complete: its current_prices has an entry for every fuel type of
\* which the station has a current validated price row, a price of 0
\* included.
C26_BulkViewComplete ==
    (obs.op = "listing" /\ obs.ask.fuel_type = None) =>
        \A s \in Range(obs.bulk.order) :
            DOMAIN obs.bulk.view[s] = PricedFuels(s)

\* C29: the station detail endpoint shows as current price of a fuel only
\* the price of a row of that station that is current and validated.
C29_DetailShowsValidatedOnly ==
    (obs.op = "detail" /\ obs.status = 200) =>
        \A f \in DOMAIN obs.current_prices :
            \E p \in CurrentRowsOf(obs.id) :
                p.fuel_type = f /\ p.price = obs.current_prices[f]

\* C27: the two read paths agree: the price the bulk query shows for a
\* fuel type in a station's view is the price get_current_prices returns
\* for that station and fuel type in the same store, also after several
\* reports for the pair have been ingested.
C27_ReadPathsAgree ==
    obs.op = "bulk" =>
        \A s \in DOMAIN obs.view : \A v \in CurrentPricesViews(s) :
            \A f \in DOMAIN obs.view[s] :
                f \in DOMAIN v /\ v[f] = obs.view[s][f]

\* C28: total_reports counts the reports: whatever the interleaving of the
\* ingestions, the total_reports of a station has grown by the number of
\* report rows persisted for that station.
C28_TotalReportsCountsReports ==
    \A s \in DOMAIN stations :
        stations[s].total_reports - InitStations[s].total_reports
            = Cardinality({x \in reports : x.gas_station_id = s})

\* The active flag of a station is cleared by the operator of the store, at
\* any moment and independently of the requests in flight.
DeactivateStation ==
    /\ \E s \in DOMAIN stations :
          /\ stations[s].is_active
          /\ stations' = [stations EXCEPT ![s].is_active = FALSE]
    /\ obs' = NoObs
    /\ UNCHANGED <<prices, reports, req, now, lastCommitted>>

NextAdmin ==
    \/ NextWrite
    \/ DeactivateStation

\* the ingestion path next to an operator who deactivates stations
SpecAdmin == Init /\ [][NextAdmin]_vars

\* C30: the station precondition holds at commit time: create_price_report
\* commits a report and its price only for a station that exists and is
\* active at that moment, also when the station was deactivated after
\* report_price had checked it.
C30_StationHoldsAtCommit ==
    [][\A r \in Requests :
          (req[r].pc = "commit" /\ req'[r].pc = "refresh")
          => StationKnown(req[r].gas_station_id)]_vars

====
